---- MODULE Spec2Model ----
(***************************************************************************)
(* Model of the windows-audit-cis scanner core: main.py's execute/evaluate *)
(* loop, executor.py's probe dispatch and backends, and evaluator.py's     *)
(* sub-rule and rule evaluation.                                           *)
(*                                                                         *)
(* Python strings are TLA+ strings; a character is a string of length 1.   *)
(* The character set is ASCII: str.lower() is modelled on A-Z, whitespace  *)
(* on space, tab, newline, carriage return and form feed.                  *)
(***************************************************************************)
EXTENDS Integers, Sequences, FiniteSets, TLC

VARIABLES
    all_rules,      \* main.py: the list load_all_rules returned
    all_results,    \* main.py: the accumulating RuleResult list
    exec_results,   \* main.py: the observations of the rule being processed
    i,              \* main.py: index (1-based) of the rule the outer loop is at
    j,              \* main.py: index (1-based) of the sub-rule the inner loop is at
    pc,             \* main.py: position of main ("for_rule", "for_sub_rule",
                    \* "exited", or "raised" after an uncaught exception)
    exit_code,      \* main.py: the status passed to sys.exit (-1 while running)
    is_win,         \* host: sys.platform.startswith("win")
    files,          \* host: the set of paths for which os.path.exists is true
    registry,       \* host: the readable registry values, <<hive, subkey, name>> -> value
    probes          \* history: one record per execute_subrule call, in call order:
                    \* the rule and sub-rule index, the expression passed, what
                    \* check_output did (command probes), what the call gave and
                    \* how many results all_results held when it was made

vars == <<all_rules, all_results, exec_results, i, j, pc, exit_code,
          is_win, files, registry, probes>>

(***************************************************************************)
(* Python string primitives                                                *)
(***************************************************************************)

\* The character of s at 1-based position k.
Char(s, k) == SubSeq(s, k, k)

Whitespace == {" ", "\t", "\n", "\r", "\f"}

UpperLetters == "ABCDEFGHIJKLMNOPQRSTUVWXYZ"
LowerLetters == "abcdefghijklmnopqrstuvwxyz"

\* str.lower() and str.upper() on the letters they change.
LowerMap ==
    [c \in {Char(UpperLetters, k) : k \in 1..Len(UpperLetters)} |->
       Char(LowerLetters, CHOOSE k \in 1..Len(UpperLetters) : Char(UpperLetters, k) = c)]
UpperMap ==
    [c \in {Char(LowerLetters, k) : k \in 1..Len(LowerLetters)} |->
       Char(UpperLetters, CHOOSE k \in 1..Len(LowerLetters) : Char(LowerLetters, k) = c)]

\* str.lower() on one character.
LowerChar(c) == IF c \in DOMAIN LowerMap THEN LowerMap[c] ELSE c

\* str.upper() on one character.
UpperChar(c) == IF c \in DOMAIN UpperMap THEN UpperMap[c] ELSE c

RECURSIVE Lower(_)
Lower(s) == IF s = "" THEN "" ELSE LowerChar(Head(s)) \o Lower(Tail(s))

RECURSIVE Upper(_)
Upper(s) == IF s = "" THEN "" ELSE UpperChar(Head(s)) \o Upper(Tail(s))

RECURSIVE LStrip(_)
LStrip(s) == IF s # "" /\ Head(s) \in Whitespace THEN LStrip(Tail(s)) ELSE s

RECURSIVE RStrip(_)
RStrip(s) ==
    IF s # "" /\ Char(s, Len(s)) \in Whitespace
    THEN RStrip(SubSeq(s, 1, Len(s) - 1))
    ELSE s

\* str.strip()
Strip(s) == RStrip(LStrip(s))

\* s.startswith(p)
StartsWith(s, p) == Len(s) >= Len(p) /\ SubSeq(s, 1, Len(p)) = p

\* s[n:] for n >= 0
From(s, n) == SubSeq(s, n + 1, Len(s))

\* s.find(sub) + 1: the 1-based position of the first occurrence, 0 if none.
Find(s, sub) ==
    LET hits == {k \in 1..(Len(s) - Len(sub) + 1) : SubSeq(s, k, k + Len(sub) - 1) = sub}
    IN  IF hits = {} THEN 0 ELSE CHOOSE k \in hits : \A h \in hits : k <= h

\* sub in s
Contains(s, sub) == Find(s, sub) # 0

\* s.split(sep): the list of segments between the occurrences of sep.
RECURSIVE Split(_, _)
Split(s, sep) ==
    LET k == Find(s, sep)
    IN  IF k = 0 THEN <<s>>
        ELSE <<SubSeq(s, 1, k - 1)>> \o Split(From(s, k - 1 + Len(sep)), sep)

\* s.split(sep, 1)
Split1(s, sep) ==
    LET k == Find(s, sep)
    IN  IF k = 0 THEN <<s>>
        ELSE <<SubSeq(s, 1, k - 1), From(s, k - 1 + Len(sep))>>

\* sep.join(parts)
RECURSIVE Join(_, _)
Join(sep, parts) ==
    IF parts = <<>> THEN ""
    ELSE IF Len(parts) = 1 THEN parts[1]
    ELSE parts[1] \o sep \o Join(sep, Tail(parts))

(***************************************************************************)
(* executor.py                                                             *)
(***************************************************************************)

\* class ExecResult(NamedTuple)
ExecResult(sub_rule, value, error) ==
    [sub_rule |-> sub_rule, value |-> value, error |-> error]

\* The outcome of a call that raised instead of returning.
Raise(what) == [raised |-> what]
Raised(r) == "raised" \in DOMAIN r

\* split_hive: "hklm\software\x" -> <<"hklm", "software\x">>
split_hive(reg_path) ==
    LET parts == Split1(reg_path, "\\")
    IN  IF Len(parts) = 1 THEN <<parts[1], "">> ELSE <<parts[1], parts[2]>>

\* get_hive: the winreg hive constant (by its long name), or the ValueError.
get_hive(hive_str) ==
    LET hive_str_up == Upper(hive_str)
    IN  IF hive_str_up \in {"HKLM", "HKEY_LOCAL_MACHINE"} THEN [hive |-> "HKEY_LOCAL_MACHINE"]
        ELSE IF hive_str_up \in {"HKCU", "HKEY_CURRENT_USER"} THEN [hive |-> "HKEY_CURRENT_USER"]
        ELSE IF hive_str_up \in {"HKU", "HKEY_USERS"} THEN [hive |-> "HKEY_USERS"]
        ELSE IF hive_str_up \in {"HKCR", "HKEY_CLASSES_ROOT"} THEN [hive |-> "HKEY_CLASSES_ROOT"]
        ELSE Raise("Unsupported hive: " \o hive_str)

\* The text of the OSError winreg raises for a key or value that cannot be read.
RegistryOSError == "[WinError 2] The system cannot find the file specified"

\* read_registry, on the registry reg. A value_name of None (the default
\* value) is the name "" of reg.
read_registry(sub_rule, reg) ==
    LET rule_body == Strip(From(sub_rule, 2))
        parts == Split(rule_body, "->")
    IN  IF Len(parts) < 2
        THEN ExecResult(sub_rule, "", "Invalid registry rule format: missing '->'")
        ELSE
          LET reg_path == Strip(parts[1])
              value_name == Strip(parts[2])
              hp == split_hive(reg_path)
              hive == get_hive(hp[1])
          IN  IF Raised(hive)
              THEN ExecResult(sub_rule, "", hive.raised)
              ELSE LET key == <<hive.hive, hp[2], value_name>>
                   IN  IF key \in DOMAIN reg
                       THEN ExecResult(sub_rule, reg[key], "")
                       ELSE ExecResult(sub_rule, "", "Registry error: " \o RegistryOSError)

\* check_file asking for a "->" as read_registry does.
check_file_requires_separator(sub_rule, fs) ==
    LET rule_body == Strip(From(sub_rule, 2))
        parts == Split(rule_body, "->")
        file_path == Strip(parts[1])
    IN  IF Len(parts) < 2
        THEN ExecResult(sub_rule, "", "Invalid file rule format: missing '->'")
        ELSE IF file_path \in fs
        THEN ExecResult(sub_rule, "exists", "")
        ELSE ExecResult(sub_rule, "missing", "")

\* check_file, on the set fs of paths that exist.
check_file(sub_rule, fs) ==
    LET rule_body == Strip(From(sub_rule, 2))
        parts == Split(rule_body, "->")
        file_path == Strip(parts[1])
    IN  IF file_path \in fs
        THEN ExecResult(sub_rule, "exists", "")
        ELSE ExecResult(sub_rule, "missing", "")

\* What subprocess.check_output does with a command: it returns the
\* command's standard output, raises CalledProcessError for a non-zero exit
\* status, or raises another exception (the output cannot be decoded, the
\* process cannot be started).
ProcOk(stdout) == [kind |-> "ok", stdout |-> stdout, code |-> 0]
ProcExit(code) == [kind |-> "exit", stdout |-> "", code |-> code]
ProcRaise(what) == [kind |-> "raise", stdout |-> what, code |-> 0]

\* str(CalledProcessError)
CalledProcessError(cmd, code) ==
    "Command '" \o cmd \o "' returned non-zero exit status " \o ToString(code) \o "."

\* run_command without the except clause: CalledProcessError propagates.
run_command_uncaught(sub_rule, proc) ==
    IF proc.kind = "ok" THEN ExecResult(sub_rule, Strip(proc.stdout), "")
    ELSE Raise("CalledProcessError")

\* run_command, given what check_output does with the command.
run_command(sub_rule, proc) ==
    LET cmd_str == Strip(From(sub_rule, 4))
    IN  IF proc.kind = "ok" THEN ExecResult(sub_rule, Strip(proc.stdout), "")
        ELSE IF proc.kind = "exit"
        THEN ExecResult(sub_rule, "", "Command error: " \o CalledProcessError(cmd_str, proc.code))
        ELSE Raise(proc.stdout)

\* execute_subrule returning an empty observation, with no error, for an
\* expression without a known prefix.
execute_subrule_unknown_is_empty(raw_sub_rule, win, reg, fs, proc) ==
    LET sub_rule == Lower(Strip(raw_sub_rule))
    IN  IF StartsWith(sub_rule, "r:")
        THEN IF win THEN read_registry(sub_rule, reg)
             ELSE ExecResult(sub_rule, "", "Registry check not supported on non-Windows")
        ELSE IF StartsWith(sub_rule, "f:") THEN check_file(sub_rule, fs)
        ELSE IF StartsWith(sub_rule, "cmd:") THEN run_command(sub_rule, proc)
        ELSE ExecResult(sub_rule, "", "")

\* execute_subrule on a host: win is sys.platform.startswith("win"), reg the
\* registry, fs the existing paths, proc what check_output does if called.
execute_subrule(raw_sub_rule, win, reg, fs, proc) ==
    LET sub_rule == Lower(Strip(raw_sub_rule))
    IN  IF StartsWith(sub_rule, "r:")
        THEN IF win THEN read_registry(sub_rule, reg)
             ELSE ExecResult(sub_rule, "", "Registry check not supported on non-Windows")
        ELSE IF StartsWith(sub_rule, "f:") THEN check_file(sub_rule, fs)
        ELSE IF StartsWith(sub_rule, "cmd:") THEN run_command(sub_rule, proc)
        ELSE ExecResult(sub_rule, "", "Unknown prefix in " \o sub_rule)

(***************************************************************************)
(* Python's re, for the two uses evaluator.py makes of it.                 *)
(*                                                                         *)
(* Rule patterns are modelled over the pattern language of literal         *)
(* characters, ".", "^", "$" and groups "(" ")" without quantifiers or     *)
(* alternation (a group is then transparent). A pattern whose parentheses  *)
(* do not balance does not compile: re raises re.error.                    *)
(***************************************************************************)

\* re.search(r"->\s*regex:(.+)$", s).group(1), or "" when there is no match
\* (group 1 is never empty when there is one). "." matches no newline and
\* "$" matches at the end and before a newline that ends the string.
RegexMarker(s) ==
    LET Tail6(k) == From(LStrip(From(s, k + 1)), 6)
        Body(k)  == IF Tail6(k) # "" /\ Char(Tail6(k), Len(Tail6(k))) = "\n"
                    THEN SubSeq(Tail6(k), 1, Len(Tail6(k)) - 1)
                    ELSE Tail6(k)
        hits == {k \in 1..(Len(s) - 1) :
                   /\ SubSeq(s, k, k + 1) = "->"
                   /\ StartsWith(LStrip(From(s, k + 1)), "regex:")
                   /\ Body(k) # ""
                   /\ ~Contains(Body(k), "\n")}
    IN  IF hits = {} THEN ""
        ELSE Body(CHOOSE k \in hits : \A h \in hits : k <= h)

\* The nesting depth of the parentheses of pattern after depth open ones,
\* -1 once a ")" closes nothing.
RECURSIVE ParenDepth(_, _)
ParenDepth(pattern, depth) ==
    IF depth < 0 \/ pattern = "" THEN depth
    ELSE IF Head(pattern) = "(" THEN ParenDepth(Tail(pattern), depth + 1)
    ELSE IF Head(pattern) = ")" THEN ParenDepth(Tail(pattern), depth - 1)
    ELSE ParenDepth(Tail(pattern), depth)

\* re.compile(pattern) succeeds.
Compiles(pattern) == ParenDepth(pattern, 0) = 0

\* The compiled pattern matches val from position pos (0-based) on.
RECURSIVE MatchFrom(_, _, _)
MatchFrom(pattern, val, pos) ==
    IF pattern = "" THEN TRUE
    ELSE LET c == Head(pattern)
             rest == Tail(pattern)
         IN  IF c = "^" THEN pos = 0 /\ MatchFrom(rest, val, pos)
             ELSE IF c = "$"
             THEN /\ \/ pos = Len(val)
                     \/ pos = Len(val) - 1 /\ Char(val, Len(val)) = "\n"
                  /\ MatchFrom(rest, val, pos)
             ELSE IF c \in {"(", ")"} THEN MatchFrom(rest, val, pos)
             ELSE IF c = "."
             THEN pos < Len(val) /\ Char(val, pos + 1) # "\n" /\ MatchFrom(rest, val, pos + 1)
             ELSE pos < Len(val) /\ Char(val, pos + 1) = c /\ MatchFrom(rest, val, pos + 1)

\* re.match(pattern, val): "match", "nomatch", or "error" (re.error raised).
re_match(pattern, val) ==
    IF ~Compiles(pattern) THEN "error"
    ELSE IF MatchFrom(pattern, val, 0) THEN "match"
    ELSE "nomatch"

(***************************************************************************)
(* evaluator.py                                                            *)
(***************************************************************************)

\* The (bool, str) evaluate_subrule returns.
Verdict(pass, reason) == [pass |-> pass, reason |-> reason]

\* The expression in which evaluate_subrule looks for the markers.
MarkerText(sub_rule) == Lower(sub_rule)

\* evaluate_subrule with the error looked at after the markers, not before.
evaluate_subrule_error_last(exec_result) ==
    LET sub_rule == MarkerText(exec_result.sub_rule)
        val == exec_result.value
        pattern == Strip(RegexMarker(sub_rule))
    IN  IF Contains(sub_rule, "-> exists")
        THEN IF val = "exists" THEN Verdict(TRUE, "file found")
             ELSE Verdict(FALSE, "file not found (" \o val \o ")")
        ELSE IF Contains(sub_rule, "-> missing")
        THEN IF val = "missing" THEN Verdict(TRUE, "file is missing")
             ELSE Verdict(FALSE, "file is present (" \o val \o ")")
        ELSE IF RegexMarker(sub_rule) # ""
        THEN IF re_match(pattern, val) = "error" THEN Raise("re.error")
             ELSE IF re_match(pattern, val) = "match" THEN Verdict(TRUE, "regex matched")
             ELSE Verdict(FALSE, "regex '" \o pattern \o "' did not match '" \o val \o "'")
        ELSE IF exec_result.error # "" THEN Verdict(FALSE, exec_result.error)
        ELSE Verdict(TRUE, "no condition recognized")

\* evaluate_subrule with the missing marker looked for before the exists marker.
evaluate_subrule_missing_first(exec_result) ==
    IF exec_result.error # "" THEN Verdict(FALSE, exec_result.error)
    ELSE
      LET sub_rule == MarkerText(exec_result.sub_rule)
          val == exec_result.value
          pattern == Strip(RegexMarker(sub_rule))
      IN  IF Contains(sub_rule, "-> missing")
          THEN IF val = "missing" THEN Verdict(TRUE, "file is missing")
               ELSE Verdict(FALSE, "file is present (" \o val \o ")")
          ELSE IF Contains(sub_rule, "-> exists")
          THEN IF val = "exists" THEN Verdict(TRUE, "file found")
               ELSE Verdict(FALSE, "file not found (" \o val \o ")")
          ELSE IF RegexMarker(sub_rule) # ""
          THEN IF re_match(pattern, val) = "error" THEN Raise("re.error")
               ELSE IF re_match(pattern, val) = "match" THEN Verdict(TRUE, "regex matched")
               ELSE Verdict(FALSE, "regex '" \o pattern \o "' did not match '" \o val \o "'")
          ELSE Verdict(TRUE, "no condition recognized")

\* evaluate_subrule
evaluate_subrule(exec_result) ==
    IF exec_result.error # "" THEN Verdict(FALSE, exec_result.error)
    ELSE
      LET sub_rule == MarkerText(exec_result.sub_rule)
          val == exec_result.value
          pattern == Strip(RegexMarker(sub_rule))
      IN  IF Contains(sub_rule, "-> exists")
          THEN IF val = "exists" THEN Verdict(TRUE, "file found")
               ELSE Verdict(FALSE, "file not found (" \o val \o ")")
          ELSE IF Contains(sub_rule, "-> missing")
          THEN IF val = "missing" THEN Verdict(TRUE, "file is missing")
               ELSE Verdict(FALSE, "file is present (" \o val \o ")")
          ELSE IF RegexMarker(sub_rule) # ""
          THEN IF re_match(pattern, val) = "error" THEN Raise("re.error")
               ELSE IF re_match(pattern, val) = "match" THEN Verdict(TRUE, "regex matched")
               ELSE Verdict(FALSE, "regex '" \o pattern \o "' did not match '" \o val \o "'")
          ELSE Verdict(TRUE, "no condition recognized")

\* class RuleResult
RuleResult(rule, status, details) ==
    [rule_id |-> rule.id, title |-> rule.title, status |-> status, details |-> details,
     description |-> rule.description, rationale |-> rule.rationale,
     remediation |-> rule.remediation, compliance |-> rule.compliance,
     condition |-> rule.condition]

\* evaluate_rule: passed_subrules after the loop over exec_results.
PassedSubrules(results) ==
    Cardinality({k \in 1..Len(results) : evaluate_subrule(results[k]).pass})

\* evaluate_rule: fail_reasons after the loop over exec_results.
RECURSIVE FailReasons(_)
FailReasons(results) ==
    IF results = <<>> THEN <<>>
    ELSE LET v == evaluate_subrule(Head(results))
         IN  (IF v.pass THEN <<>>
              ELSE <<"[" \o Head(results).sub_rule \o "] " \o v.reason>>)
             \o FailReasons(Tail(results))

\* ConditionPassed with the condition compared as written, not lowercased.
ConditionPassedCaseSensitive(condition, passed_subrules, total) ==
    LET cond == IF condition # "" THEN condition ELSE "all"
    IN  IF cond = "all" THEN passed_subrules = total
        ELSE IF cond = "any" THEN passed_subrules > 0
        ELSE IF cond = "none" THEN passed_subrules = 0
        ELSE passed_subrules = total

\* ConditionPassed with "any" asking for more than one passing sub-rule.
ConditionPassedAnyOffByOne(condition, passed_subrules, total) ==
    LET cond == IF condition # "" THEN Lower(condition) ELSE "all"
    IN  IF cond = "all" THEN passed_subrules = total
        ELSE IF cond = "any" THEN passed_subrules > 1
        ELSE IF cond = "none" THEN passed_subrules = 0
        ELSE passed_subrules = total

\* evaluate_rule: the condition logic.
ConditionPassed(condition, passed_subrules, total) ==
    LET cond == IF condition # "" THEN Lower(condition) ELSE "all"
    IN  IF cond = "all" THEN passed_subrules = total
        ELSE IF cond = "any" THEN passed_subrules > 0
        ELSE IF cond = "none" THEN passed_subrules = 0
        ELSE passed_subrules = total

\* Details with the reasons joined whenever there are any, passed or not.
DetailsReasonsFirst(passed, fail_reasons, passed_subrules, total) ==
    IF fail_reasons # <<>>
    THEN Join("; ", fail_reasons)
    ELSE ToString(passed_subrules) \o "/" \o ToString(total) \o " sub-rules passed"

\* evaluate_rule: the details string.
Details(passed, fail_reasons, passed_subrules, total) ==
    IF ~passed /\ fail_reasons # <<>>
    THEN Join("; ", fail_reasons)
    ELSE ToString(passed_subrules) \o "/" \o ToString(total) \o " sub-rules passed"

\* evaluate_rule: the RuleResult, or the exception a sub-rule's evaluation raised.
evaluate_rule(rule, results) ==
    IF \E k \in 1..Len(results) : Raised(evaluate_subrule(results[k]))
    THEN Raise("re.error")
    ELSE
      LET passed_subrules == PassedSubrules(results)
          fail_reasons == FailReasons(results)
          total == Len(results)
          passed == ConditionPassed(rule.condition, passed_subrules, total)
      IN  RuleResult(rule, IF passed THEN "PASS" ELSE "FAIL",
                     Details(passed, fail_reasons, passed_subrules, total))

(***************************************************************************)
(* parser.py and sca_structs.py: the Rule records main receives            *)
(***************************************************************************)

\* dict.get(key, default)
Get(item, key, default) == IF key \in DOMAIN item THEN item[key] ELSE default

\* load_sca_file: the Rule built from one item of a file's "checks" array.
LoadRule(item) ==
    [id          |-> Get(item, "id", 0),
     title       |-> Get(item, "title", ""),
     description |-> Get(item, "description", ""),
     rationale   |-> Get(item, "rationale", ""),
     remediation |-> Get(item, "remediation", ""),
     compliance  |-> Get(item, "compliance", <<>>),
     references  |-> Get(item, "references", <<>>),
     condition   |-> Get(item, "condition", "all"),
     rules       |-> Get(item, "rules", <<>>)]

(***************************************************************************)
(* Bounds and input sets                                                   *)
(***************************************************************************)

\* The longest rule list main is run on.
MaxRules == 2

\* The longest observation list evaluate_rule is applied to.
MaxSub == 3

\* Sequences over S of length at most n.
SeqUpTo(S, n) == UNION {[1..m -> S] : m \in 0..n}

\* The condition strings of the input rules.
Conditions == {"all", "ALL", "any", "Any", "none", "NONE", "", "xor"}

\* A checks item with every key written out.
Item(id, condition, rules) ==
    [id          |-> id,
     title       |-> "Check " \o ToString(id),
     description |-> "description " \o ToString(id),
     rationale   |-> "rationale " \o ToString(id),
     remediation |-> "remediation " \o ToString(id),
     compliance  |-> <<[cis |-> <<"2.3." \o ToString(id)>>]>>,
     references  |-> <<"ref " \o ToString(id)>>,
     condition   |-> condition,
     rules       |-> rules]

\* A checks item that leaves the condition out.
ItemNoCondition(id, rules) == [id |-> id, title |-> "Check " \o ToString(id), rules |-> rules]

\* The probe expressions of the one-rule runs.
Expressions ==
    {"f:/a -> exists", "  F:/A -> Exists\n", "f:/b -> exists", "f:/a -> missing",
     "f:/b -> missing", "f:/a -> missing -> exists", "f:/a ->exists", "f:/a", "f:", "F: -> exists",
     "f:/a -> regex:^exi", "f:/b -> regex:^exists$", "f:/b -> regex:(",
     "x:something", "x:/a -> exists", "", "file:/a -> missing", "cmd", " r :hklm\\x -> v",
     "r:hklm\\software\\x -> v", "r:HKLM\\Software\\X -> V -> regex:^1$",
     "r:hkey_local_machine\\software\\x -> v -> regex:2", "r:hklm\\software\\x -> exists",
     "r:hklm\\software\\x", "r:hkxx\\software -> v", "r:hklm\\software\\x -> -> regex:^d",
     "r:hkcu\\software\\x -> v", "r:hklm -> missing",
     "cmd:ver", "cmd:ver -> regex:^Windows 10", "cmd:ver -> regex:^windows 10",
     "CMD:echo hello -> regex:^hello$", "cmd:ver -> regex:(", "cmd:ver -> exists",
     "cmd:ver ->regex:w.ndows", "cmd:ver -> regex:"}

\* The rules of the many-rule runs.
RulePool ==
    {LoadRule(Item(1, "all", <<"f:/a -> exists", "f:/b -> missing">>)),
     LoadRule(Item(2, "any", <<"f:/a -> exists", "f:/b -> exists">>)),
     LoadRule(Item(3, "NONE", <<"x:something", "r:hklm\\software\\x -> v -> regex:^1$">>)),
     LoadRule(ItemNoCondition(4, <<"cmd:ver -> regex:^Windows 10">>)),
     LoadRule(Item(5, "any", <<>>)),
     LoadRule(Item(6, "all", <<"r:hklm\\software\\x", "cmd:ver -> regex:(">>))}

\* The rule lists main is run on.
RuleLists ==
    SeqUpTo(RulePool, MaxRules)
    \cup {<<LoadRule(Item(7, c, <<e>>))>> : c \in Conditions, e \in Expressions}

\* The hosts: sys.platform, the existing paths, the registry.
Registry1 ==
    [k \in {<<"HKEY_LOCAL_MACHINE", "software\\x", "v">>,
            <<"HKEY_LOCAL_MACHINE", "software\\x", "">>,
            <<"HKEY_LOCAL_MACHINE", "software\\x", "exists">>}
       |-> IF k[3] = "v" THEN "1" ELSE IF k[3] = "" THEN "default" ELSE "exists"]

Hosts ==
    {[is_win |-> FALSE, files |-> {"/a", "/B"}, registry |-> <<>>],
     [is_win |-> FALSE, files |-> {}, registry |-> <<>>],
     [is_win |-> TRUE, files |-> {"/a"}, registry |-> Registry1],
     [is_win |-> TRUE, files |-> {"/b"}, registry |-> <<>>]}

\* What check_output may do with a command.
ProcOutcomes ==
    {ProcOk("Windows 10 Pro\r\n"), ProcOk("windows 10 pro\n"), ProcOk("hello\n"), ProcOk(""),
     ProcExit(1), ProcRaise("UnicodeDecodeError")}

\* What the call of execute_subrule on an expression may meet: a command
\* probe meets one of ProcOutcomes, the other probes start no process.
ProcChoices(raw_sub_rule) ==
    IF StartsWith(Lower(Strip(raw_sub_rule)), "cmd:") THEN ProcOutcomes ELSE {ProcOk("")}

(***************************************************************************)
(* main.py                                                                 *)
(***************************************************************************)

Init ==
    /\ all_rules \in RuleLists
    /\ \E h \in Hosts : is_win = h.is_win /\ files = h.files /\ registry = h.registry
    /\ all_results = <<>>
    /\ exec_results = <<>>
    /\ i = 1
    /\ j = 1
    /\ pc = "for_rule"
    /\ exit_code = -1
    /\ probes = <<>>

\* main.py line 41: the observation list a rule's iteration starts with.
NewExecResults == <<>>

\* for rule in all_rules: the next rule is taken, with a fresh observation list.
BeginRule ==
    /\ pc = "for_rule"
    /\ i <= Len(all_rules)
    /\ exec_results' = NewExecResults
    /\ j' = 1
    /\ pc' = "for_sub_rule"
    /\ UNCHANGED <<all_rules, all_results, i, exit_code, is_win, files, registry, probes>>

\* The inner loop calling execute_subrule again on a sub-rule whose
\* observation has an error.
RetryOnError(sub, r_exec) == IF r_exec.error # "" THEN sub ELSE sub + 1

\* main.py line 42: the inner loop goes on to the next sub-rule, whatever
\* the observation.
NextSubIndex(sub, r_exec) == sub + 1

\* for sub_rule in rule.rules: r_exec = execute_subrule(sub_rule);
\* exec_results.append(r_exec). An exception execute_subrule lets through
\* ends main (exit status 1).
ExecuteSubrule ==
    /\ pc = "for_sub_rule"
    /\ j <= Len(all_rules[i].rules)
    /\ \E proc \in ProcChoices(all_rules[i].rules[j]) :
         LET sub_rule == all_rules[i].rules[j]
             r_exec == execute_subrule(sub_rule, is_win, registry, files, proc)
         IN  /\ probes' = Append(probes, [rule |-> i, sub |-> j, sub_rule |-> sub_rule,
                                         proc |-> proc, r_exec |-> r_exec,
                                         appended |-> Len(all_results)])
             /\ IF Raised(r_exec)
                THEN /\ pc' = "raised"
                     /\ exit_code' = 1
                     /\ UNCHANGED <<exec_results, j>>
                ELSE /\ exec_results' = Append(exec_results, r_exec)
                     /\ j' = NextSubIndex(j, r_exec)
                     /\ UNCHANGED <<pc, exit_code>>
    /\ UNCHANGED <<all_rules, all_results, i, is_win, files, registry>>

\* all_results.append(r_result) putting the result first, not last.
PrependResult(results, r_result) == <<r_result>> \o results

\* main.py line 48: all_results.append(r_result)
AppendResult(results, r_result) == Append(results, r_result)

\* r_result = evaluate_rule(rule, exec_results); all_results.append(r_result).
\* An exception evaluate_rule lets through ends main (exit status 1).
EvaluateRule ==
    /\ pc = "for_sub_rule"
    /\ j > Len(all_rules[i].rules)
    /\ LET r_result == evaluate_rule(all_rules[i], exec_results)
       IN  IF Raised(r_result)
           THEN /\ pc' = "raised"
                /\ exit_code' = 1
                /\ UNCHANGED <<all_results, i>>
           ELSE /\ all_results' = AppendResult(all_results, r_result)
                /\ i' = i + 1
                /\ pc' = "for_rule"
                /\ UNCHANGED exit_code
    /\ UNCHANGED <<all_rules, exec_results, j, is_win, files, registry, probes>>

\* main.py: passed_count
passed_count == Cardinality({k \in 1..Len(all_results) : all_results[k].status = "PASS"})

\* main.py: failed_count
failed_count == Len(all_results) - passed_count

\* The loop is over: the counts are taken, the reports are written and main
\* exits with status 1 if any check failed, 0 otherwise.
SummariseAndExit ==
    /\ pc = "for_rule"
    /\ i > Len(all_rules)
    /\ pc' = "exited"
    /\ exit_code' = IF failed_count > 0 THEN 1 ELSE 0
    /\ UNCHANGED <<all_rules, all_results, exec_results, i, j, is_win, files, registry, probes>>

Next == BeginRule \/ ExecuteSubrule \/ EvaluateRule \/ SummariseAndExit

Spec == Init /\ [][Next]_vars

(***************************************************************************)
(* evaluate_rule on its own: any rule, any list of observations            *)
(***************************************************************************)

\* The expressions, values and errors of the observations evaluate_rule is
\* applied to: what execute_subrule stores, and what a direct caller may pass.
EvalExpressions ==
    Expressions \cup {Lower(Strip(e)) : e \in Expressions}
    \cup {"f:/a -> missing -> regex:^m", "cmd:ver -> regex:a\n", "cmd:ver -> REGEX:^W",
          "cmd:ver -> regex:x\ny", "r:hklm\\x -> regex:^exists$ -> regex:mis",
          "cmd:ver -> regex: ", "f:/a -> Missing"}

EvalValues == {"", "exists", "missing", "Windows 10 Pro", "windows 10 pro", "1"}

EvalErrors == {"", "Registry error: " \o RegistryOSError, "Unknown prefix in x:something"}

\* The observations of the longer lists.
ObsPool ==
    {ExecResult("f:/a -> exists", "exists", ""),
     ExecResult("f:/b -> exists", "missing", ""),
     ExecResult("f:/b -> missing", "exists", ""),
     ExecResult("cmd:ver -> regex:^windows", "windows 10 pro", ""),
     ExecResult("cmd:ver", "", "Command error: " \o CalledProcessError("ver", 1)),
     ExecResult("cmd:ver -> regex:(", "x", "")}

EvalInputs ==
    SeqUpTo(ObsPool, MaxSub)
    \cup {<<ExecResult(e, v, err)>> : e \in EvalExpressions, v \in EvalValues, err \in EvalErrors}

\* evaluate_rule is about to be called on a rule and a list of observations.
InitEval ==
    /\ \E c \in Conditions : all_rules = <<LoadRule(Item(1, c, <<>>))>>
    /\ exec_results \in EvalInputs
    /\ is_win = FALSE /\ files = {} /\ registry = <<>>
    /\ all_results = <<>>
    /\ i = 1
    /\ j = 1
    /\ pc = "for_sub_rule"
    /\ exit_code = -1
    /\ probes = <<>>

NextEval == EvaluateRule \/ SummariseAndExit

SpecEval == InitEval /\ [][NextEval]_vars

(***************************************************************************)
(* Properties                                                              *)
(***************************************************************************)

\* The policy a condition string stands for.
Policy(condition) ==
    IF Lower(condition) = "any" THEN "ANY"
    ELSE IF Lower(condition) = "none" THEN "NONE"
    ELSE "ALL"

\* evaluate_rule has returned the result of the one rule it was applied to.
EvalDone == pc # "raised" /\ Len(all_rules) = 1 /\ Len(all_results) = 1

\* The number of observations of a list whose sub-rule verdict is PASS.
PassCount(results) ==
    Cardinality({k \in 1..Len(results) : evaluate_subrule(results[k]).pass})

\* C1: the status evaluate_rule returns is PASS exactly when passed = total
\* under ALL, passed > 0 under ANY, passed = 0 under NONE, the condition
\* being compared case-insensitively and every other condition (empty,
\* left out, unrecognized) counting as ALL; with no observations ALL and
\* NONE give PASS and ANY gives FAIL.
C1_StatusByCondition ==
    EvalDone =>
      LET total == Len(exec_results)
          passed == PassCount(exec_results)
          policy == Policy(all_rules[1].condition)
          status == all_results[1].status
      IN  /\ status \in {"PASS", "FAIL"}
          /\ policy = "ALL" => (status = "PASS" <=> passed = total)
          /\ policy = "ANY" => (status = "PASS" <=> passed > 0)
          /\ policy = "NONE" => (status = "PASS" <=> passed = 0)
          /\ total = 0 => (status = "PASS" <=> policy \in {"ALL", "NONE"})

\* A rule written "Any" and evaluated on no observations has failed.
C1_Witness ==
    /\ EvalDone
    /\ all_rules[1].condition = "Any"
    /\ exec_results = <<>>
    /\ all_results[1].status = "FAIL"

\* The loop of main is over.
LoopFinished == pc = "exited" \/ (pc = "for_rule" /\ i > Len(all_rules))

\* The observations execute_subrule returned for the k-th rule, in call order.
ObservationsOf(k) ==
    LET ps == SelectSeq(probes, LAMBDA p : p.rule = k)
    IN  [n \in 1..Len(ps) |-> ps[n].r_exec]

\* C2: once the loop of main is over, all_results is as long as all_rules and
\* its k-th entry is the evaluation of the k-th rule, carrying that rule's id,
\* title, description, rationale, remediation, compliance and condition.
C2_OneResultPerRule ==
    LoopFinished =>
      /\ Len(all_results) = Len(all_rules)
      /\ \A k \in 1..Len(all_rules) :
           /\ all_results[k] = evaluate_rule(all_rules[k], ObservationsOf(k))
           /\ all_results[k].rule_id = all_rules[k].id
           /\ all_results[k].title = all_rules[k].title
           /\ all_results[k].description = all_rules[k].description
           /\ all_results[k].rationale = all_rules[k].rationale
           /\ all_results[k].remediation = all_rules[k].remediation
           /\ all_results[k].compliance = all_rules[k].compliance
           /\ all_results[k].condition = all_rules[k].condition

\* A run on two different rules has finished its loop and exited.
C2_Witness ==
    /\ pc = "exited"
    /\ Len(all_rules) = 2
    /\ all_rules[1].id # all_rules[2].id
    /\ all_results[2].rule_id = all_rules[2].id
    /\ all_results[1].status # all_results[2].status

\* C3: an observation with a non-empty error gets the verdict FAIL with the
\* error as its reason, whatever its expression and value; the rule result
\* evaluate_rule builds then names the error when the rule fails.
C3_ErrorAlwaysFails ==
    \A k \in 1..Len(exec_results) :
      exec_results[k].error # "" =>
        /\ evaluate_subrule(exec_results[k]) = Verdict(FALSE, exec_results[k].error)
        /\ (EvalDone /\ all_results[1].status = "FAIL") =>
             Contains(all_results[1].details,
                      "[" \o exec_results[k].sub_rule \o "] " \o exec_results[k].error)

\* A rule has failed on an observation with an error whose expression asks
\* for "-> exists" and whose value is "exists".
C3_Witness ==
    /\ EvalDone
    /\ Len(exec_results) = 1
    /\ exec_results[1].error # ""
    /\ Contains(Lower(exec_results[1].sub_rule), "-> exists")
    /\ exec_results[1].value = "exists"
    /\ all_results[1].status = "FAIL"

\* The expression a probe was called on, as execute_subrule normalises it.
Normal(p) == Lower(Strip(p.sub_rule))

IsRegistryProbe(p) == StartsWith(Normal(p), "r:")
IsFileProbe(p) == ~IsRegistryProbe(p) /\ StartsWith(Normal(p), "f:")
IsCommandProbe(p) ==
    ~IsRegistryProbe(p) /\ ~IsFileProbe(p) /\ StartsWith(Normal(p), "cmd:")

\* Backend unsupported: a registry probe on a host without a registry.
BackendUnsupported(p) == IsRegistryProbe(p) /\ ~is_win

\* Malformed expression: no known prefix, or a registry body without "->".
UnknownPrefix(p) == ~IsRegistryProbe(p) /\ ~IsFileProbe(p) /\ ~IsCommandProbe(p)
MissingSeparator(p) == IsRegistryProbe(p) /\ is_win /\ ~Contains(From(Normal(p), 2), "->")
Malformed(p) == UnknownPrefix(p) \/ MissingSeparator(p)

\* Lookup failure of the registry backend: the hive is not one of the four,
\* or the key or value cannot be read.
RegistryLookupFailed(p) ==
    /\ IsRegistryProbe(p) /\ is_win /\ ~MissingSeparator(p)
    /\ LET parts == Split(Strip(From(Normal(p), 2)), "->")
           hp == split_hive(Strip(parts[1]))
       IN  \/ Raised(get_hive(hp[1]))
           \/ <<get_hive(hp[1]).hive, hp[2], Strip(parts[2])>> \notin DOMAIN registry

\* Lookup failure of the command backend: a non-zero exit status.
CommandFailed(p) == IsCommandProbe(p) /\ p.proc.kind = "exit"

\* Lookup failure of the file backend: the file (the text between "f:" and
\* the first "->") is not found.
FilePath(p) ==
    LET n == Normal(p)
    IN  Strip(IF Contains(n, "->") THEN SubSeq(n, 3, Find(n, "->") - 1) ELSE From(n, 2))
FileNotFound(p) == IsFileProbe(p) /\ FilePath(p) \notin files

\* The conditions execute_subrule reports as an error.
ErrorCondition(p) ==
    BackendUnsupported(p) \/ Malformed(p) \/ RegistryLookupFailed(p) \/ CommandFailed(p)

\* The sub-rule of a probe got the verdict FAIL with the probe's error as reason.
FailsWithItsError(p) ==
    /\ ~Raised(p.r_exec)
    /\ p.r_exec.error # ""
    /\ evaluate_subrule(p.r_exec) = Verdict(FALSE, p.r_exec.error)

\* No abort comes from an observation with an error: when main was ended by
\* an exception, the last probe raised it (a command probe, and not for its
\* exit status), or the evaluation of an error-free observation did.
AbortsAreNotFromErrors ==
    pc = "raised" =>
      \/ probes # <<>> /\ Raised(probes[Len(probes)].r_exec)
                       /\ ~ErrorCondition(probes[Len(probes)])
      \/ \E k \in 1..Len(exec_results) :
           exec_results[k].error = "" /\ Raised(evaluate_subrule(exec_results[k]))

\* Every result is the evaluation of its own rule's observations, and no rule
\* the loop has passed is without one.
ResultsAreLocal ==
    /\ pc # "exited" => Len(all_results) = i - 1
    /\ LoopFinished => Len(all_results) = Len(all_rules)
    /\ \A k \in 1..Len(all_results) :
         all_results[k] = evaluate_rule(all_rules[k], ObservationsOf(k))

\* The sub-rule of a probe got the verdict FAIL, with the probe's error (if it
\* has one) as reason.
FailsAsClaimed(p) ==
    /\ ~Raised(p.r_exec)
    /\ ~evaluate_subrule(p.r_exec).pass
    /\ p.r_exec.error # "" => evaluate_subrule(p.r_exec).reason = p.r_exec.error

\* C4 as stated: an unsupported backend, a malformed expression or a lookup
\* failure (a file that is not found included) turns its sub-rule into a
\* FAIL verdict with the error text as reason, never ends the run, and leaves
\* the results of the other rules what their own observations make them.
C4_Original ==
    /\ \A n \in 1..Len(probes) :
         (ErrorCondition(probes[n]) \/ FileNotFound(probes[n])) => FailsAsClaimed(probes[n])
    /\ AbortsAreNotFromErrors
    /\ ResultsAreLocal

\* C4 amended: the conditions execute_subrule reports as an error (registry
\* probe off Windows, unknown prefix, registry body without "->", unsupported
\* hive, unreadable key or value, non-zero command exit) turn their sub-rule
\* into a FAIL verdict with the error text as reason. A file that is not
\* found is no error: its observation is the value "missing" with an empty
\* error, and its verdict follows the marker (FAIL under "-> exists", PASS
\* under "-> missing" alone). Neither ends the run, and every result is the
\* evaluation of its own rule's observations.
C4_ErrorsStayLocal ==
    /\ \A n \in 1..Len(probes) :
         LET p == probes[n]
         IN  /\ ErrorCondition(p) => FailsWithItsError(p) /\ p.r_exec.value = ""
             /\ FileNotFound(p) =>
                  /\ p.r_exec = ExecResult(Normal(p), "missing", "")
                  /\ Contains(Normal(p), "-> exists") => ~evaluate_subrule(p.r_exec).pass
                  /\ (Contains(Normal(p), "-> missing") /\ ~Contains(Normal(p), "-> exists"))
                       => evaluate_subrule(p.r_exec) = Verdict(TRUE, "file is missing")
    /\ AbortsAreNotFromErrors
    /\ ResultsAreLocal

\* A run of two rules has exited: a probe of the first met an error condition
\* and the first rule failed, the second rule passed.
C4_Witness ==
    /\ pc = "exited"
    /\ Len(all_rules) = 2
    /\ \E n \in 1..Len(probes) : probes[n].rule = 1 /\ ErrorCondition(probes[n])
    /\ all_results[1].status = "FAIL"
    /\ all_results[2].status = "PASS"

\* The pattern of a "-> regex:<pattern>" marker as the rule writes it: the
\* text of the expression where the lowercased expression has its pattern.
WrittenPattern(raw) ==
    LET low == Lower(Strip(raw))
    IN  Strip(SubSeq(Strip(raw), Len(low) - Len(RegexMarker(low)) + 1, Len(low)))

\* An error-free observation whose expression has a regex marker and no
\* exists or missing marker, and whose pattern compiles.
DecidedByRegex(p) ==
    /\ ~Raised(p.r_exec)
    /\ p.r_exec.error = ""
    /\ ~Contains(Normal(p), "-> exists")
    /\ ~Contains(Normal(p), "-> missing")
    /\ RegexMarker(Normal(p)) # ""
    /\ Compiles(WrittenPattern(p.sub_rule))

\* C5: a sub-rule decided by a regex marker passes exactly when the pattern
\* written in the rule matches the observed value from position zero (so
\* "Windows 10 Pro" under "-> regex:^Windows 10" passes).
C5_WrittenPatternDecides ==
    \A n \in 1..Len(probes) :
      DecidedByRegex(probes[n]) =>
        (evaluate_subrule(probes[n].r_exec).pass
           <=> MatchFrom(WrittenPattern(probes[n].sub_rule), probes[n].r_exec.value, 0))

\* The FAIL reasons of a list of observations, in order, each after its
\* expression in brackets.
ExpectedReasons(results) ==
    LET failing == SelectSeq(results, LAMBDA r : ~evaluate_subrule(r).pass)
    IN  [n \in 1..Len(failing) |->
           "[" \o failing[n].sub_rule \o "] " \o evaluate_subrule(failing[n]).reason]

\* "<passed>/<total> sub-rules passed"
CountText(results) ==
    ToString(PassCount(results)) \o "/" \o ToString(Len(results)) \o " sub-rules passed"

\* C6: the details of a result are the FAIL reasons of the failing sub-rules,
\* in order, each as "[<expression>] <reason>", joined with "; ", when the
\* status is FAIL and a sub-rule failed; "<passed>/<total> sub-rules passed"
\* in every other case, a passing rule with failed sub-rules included (an ANY
\* rule with one of two sub-rules passing: PASS, "1/2 sub-rules passed").
C6_DetailsString ==
    EvalDone =>
      LET res == all_results[1]
          reasons == ExpectedReasons(exec_results)
      IN  /\ (res.status = "FAIL" /\ reasons # <<>>) => res.details = Join("; ", reasons)
          /\ ~(res.status = "FAIL" /\ reasons # <<>>) => res.details = CountText(exec_results)
          /\ (Policy(all_rules[1].condition) = "ANY" /\ Len(exec_results) = 2
                /\ PassCount(exec_results) = 1)
               => res.status = "PASS" /\ res.details = "1/2 sub-rules passed"

\* An ANY rule with a passing and a failing file check has passed with the
\* details "1/2 sub-rules passed".
C6_Witness ==
    /\ EvalDone
    /\ Policy(all_rules[1].condition) = "ANY"
    /\ exec_results = <<ExecResult("f:/a -> exists", "exists", ""),
                        ExecResult("f:/b -> exists", "missing", "")>>
    /\ all_results[1].status = "PASS"
    /\ all_results[1].details = "1/2 sub-rules passed"

\* C7 as stated: a rule that fails with no FAIL reason recorded has no
\* sub-rules.
C7_Original ==
    EvalDone =>
      ((all_results[1].status = "FAIL" /\ ExpectedReasons(exec_results) = <<>>)
         => Len(exec_results) = 0)

\* C7 amended: a rule that fails with no FAIL reason recorded is an ANY rule
\* without sub-rules or a NONE rule all of whose sub-rules (at least one)
\* passed, and its details are "<passed>/<total> sub-rules passed"; a failing
\* rule with at least one sub-rule under ALL, ANY or an unrecognized condition
\* has a FAIL reason in its details.
C7_FailWithoutReason ==
    EvalDone =>
      LET res == all_results[1]
          reasons == ExpectedReasons(exec_results)
          total == Len(exec_results)
          policy == Policy(all_rules[1].condition)
      IN  /\ (res.status = "FAIL" /\ reasons = <<>>) =>
               /\ \/ policy = "ANY" /\ total = 0
                  \/ policy = "NONE" /\ total > 0 /\ PassCount(exec_results) = total
               /\ res.details = CountText(exec_results)
          /\ (res.status = "FAIL" /\ total > 0 /\ policy # "NONE") =>
               /\ reasons # <<>>
               /\ res.details = Join("; ", reasons)

\* A NONE rule whose one sub-rule passed has failed with the details
\* "1/1 sub-rules passed".
C7_Witness ==
    /\ EvalDone
    /\ Policy(all_rules[1].condition) = "NONE"
    /\ Len(exec_results) = 1
    /\ all_results[1].status = "FAIL"
    /\ all_results[1].details = "1/1 sub-rules passed"

\* The run is on one rule whose only sub-rule has no known prefix.
SoleUnknownPrefix ==
    /\ Len(all_rules) = 1
    /\ Len(all_rules[1].rules) = 1
    /\ LET n == Lower(Strip(all_rules[1].rules[1]))
       IN  ~StartsWith(n, "r:") /\ ~StartsWith(n, "f:") /\ ~StartsWith(n, "cmd:")

\* execute_subrule gave the unknown-prefix error for a probe, and the
\* sub-rule verdict is FAIL.
UnknownPrefixReported(p) ==
    /\ p.r_exec = ExecResult(Normal(p), "", "Unknown prefix in " \o Normal(p))
    /\ evaluate_subrule(p.r_exec) = Verdict(FALSE, p.r_exec.error)

\* C8 as stated: an expression without a known prefix gets the unknown-prefix
\* error and a FAIL verdict, and a rule with that expression as its only
\* sub-rule fails under any condition.
C8_Original ==
    /\ \A n \in 1..Len(probes) : UnknownPrefix(probes[n]) => UnknownPrefixReported(probes[n])
    /\ (SoleUnknownPrefix /\ Len(all_results) = 1) => all_results[1].status = "FAIL"

\* C8 amended: an expression without a known prefix gets the unknown-prefix
\* error and a FAIL verdict; a rule with that expression as its only sub-rule
\* fails under ALL, ANY and an unrecognized condition, with the error in its
\* details, and passes under NONE, with the details "0/1 sub-rules passed".
C8_UnknownPrefix ==
    /\ \A n \in 1..Len(probes) : UnknownPrefix(probes[n]) => UnknownPrefixReported(probes[n])
    /\ (SoleUnknownPrefix /\ Len(all_results) = 1) =>
         LET n == Lower(Strip(all_rules[1].rules[1]))
         IN  IF Policy(all_rules[1].condition) = "NONE"
             THEN /\ all_results[1].status = "PASS"
                  /\ all_results[1].details = "0/1 sub-rules passed"
             ELSE /\ all_results[1].status = "FAIL"
                  /\ all_results[1].details = "[" \o n \o "] Unknown prefix in " \o n

\* A NONE rule whose only sub-rule is "x:something" has passed.
C8_Witness ==
    /\ SoleUnknownPrefix
    /\ all_rules[1].rules[1] = "x:something"
    /\ Policy(all_rules[1].condition) = "NONE"
    /\ Len(all_results) = 1
    /\ all_results[1].status = "PASS"

\* C9: for an expression that starts with "f:" once trimmed and lowercased,
\* execute_subrule returns an observation with an empty error, the value
\* "exists" or "missing" (by whether the path exists) and the trimmed
\* lowercased input as its expression.
C9_FileBackend ==
    \A n \in 1..Len(probes) :
      IsFileProbe(probes[n]) =>
        /\ ~Raised(probes[n].r_exec)
        /\ probes[n].r_exec.error = ""
        /\ probes[n].r_exec.value \in {"exists", "missing"}
        /\ probes[n].r_exec.value = "exists" <=> FilePath(probes[n]) \in files
        /\ probes[n].r_exec.sub_rule = Lower(Strip(probes[n].sub_rule))

\* A file probe without a path and without "->" came back "missing".
C9_Witness ==
    \E n \in 1..Len(probes) :
      /\ probes[n].sub_rule = "f:"
      /\ probes[n].r_exec = ExecResult("f:", "missing", "")

\* C10: for an error-free observation the markers are applied in the order
\* exists, missing, regex, default: "-> exists" anywhere in the lowercased
\* expression decides (PASS iff the value is "exists"), whatever follows;
\* else "-> missing" anywhere decides (PASS iff the value is "missing"); else
\* a trailing "-> regex:<pattern>" decides by its pattern; else the verdict
\* is PASS with the reason "no condition recognized".
C10_MarkerPriority ==
    \A k \in 1..Len(exec_results) :
      LET o == exec_results[k]
          low == Lower(o.sub_rule)
          v == evaluate_subrule(o)
          pattern == Strip(RegexMarker(low))
      IN  o.error = "" =>
            IF Contains(low, "-> exists")
            THEN ~Raised(v) /\ (v.pass <=> o.value = "exists")
            ELSE IF Contains(low, "-> missing")
            THEN ~Raised(v) /\ (v.pass <=> o.value = "missing")
            ELSE IF RegexMarker(low) # ""
            THEN IF Compiles(pattern)
                 THEN ~Raised(v) /\ (v.pass <=> MatchFrom(pattern, o.value, 0))
                 ELSE Raised(v)
            ELSE v = Verdict(TRUE, "no condition recognized")

\* A rule has failed on the value "missing" of an expression with "-> missing"
\* before "-> exists": the exists marker decided.
C10_Witness ==
    /\ EvalDone
    /\ exec_results = <<ExecResult("f:/a -> missing -> exists", "missing", "")>>
    /\ all_rules[1].condition = "all"
    /\ all_results[1].status = "FAIL"
    /\ all_results[1].details = "[f:/a -> missing -> exists] file not found (missing)"

\* The calls of execute_subrule made for the k-th rule.
ProbesOf(k) == {n \in 1..Len(probes) : probes[n].rule = k}

\* C11: probes run one after the other and once each: every call is for a
\* sub-rule of the input, the call for sub-rule j of a rule comes right after
\* the call for sub-rule j-1 of that rule has returned, a call for rule k is
\* made when exactly the results of rules 1..k-1 are appended, a rule has a
\* result only when all its probes have returned, and no sub-rule is probed
\* a second time, whether or not its observation has an error.
C11_SequentialOnce ==
    /\ \A n \in 1..Len(probes) :
         LET p == probes[n]
         IN  /\ p.rule \in 1..Len(all_rules)
             /\ p.sub \in 1..Len(all_rules[p.rule].rules)
             /\ p.sub_rule = all_rules[p.rule].rules[p.sub]
             /\ p.appended = p.rule - 1
             /\ p.sub > 1 =>
                  /\ n > 1
                  /\ probes[n - 1].rule = p.rule
                  /\ probes[n - 1].sub = p.sub - 1
                  /\ ~Raised(probes[n - 1].r_exec)
             /\ (p.sub = 1 /\ n > 1) => probes[n - 1].rule < p.rule
    /\ \A n, m \in 1..Len(probes) :
         (n # m) => <<probes[n].rule, probes[n].sub>> # <<probes[m].rule, probes[m].sub>>
    /\ \A k \in 1..Len(all_results) :
         /\ Cardinality(ProbesOf(k)) = Len(all_rules[k].rules)
         /\ \A n \in ProbesOf(k) : ~Raised(probes[n].r_exec)
    /\ \A n \in 1..Len(probes) : probes[n].rule <= Len(all_results) + 1

\* A run of two rules has exited after four probes, one of which came back
\* with an error and was followed by the next probe.
C11_Witness ==
    /\ pc = "exited"
    /\ Len(all_rules) = 2
    /\ Len(probes) = 4
    /\ \E n \in 1..3 :
         /\ probes[n].r_exec.error # ""
         /\ probes[n + 1].rule = probes[n].rule
         /\ probes[n + 1].sub = probes[n].sub + 1

====
